---- MODULE Spec2Model ----
(***************************************************************************)
(* Model of the two scripts of the repository.                             *)
(*                                                                         *)
(*   Pipeline A  mri_image_management/delete_assessors.py                  *)
(*               (specification Spec: Init, Next)                          *)
(*   Pipeline B  mri_segmentation/mri_t1_segmentation_overlay.py           *)
(*               (specification SpecMRI: InitMRI, NextMRI)                 *)
(*                                                                         *)
(* Strings the code takes apart (assessor labels, directory and file       *)
(* names, the index column of the label table) are sequences of one-       *)
(* character strings, so that split, substring search and integer parsing  *)
(* are computed as the code computes them.                                 *)
(***************************************************************************)
EXTENDS Integers, Sequences, FiniteSets, TLC

(***************************************************************************)
(* Bounds of the model.                                                    *)
(***************************************************************************)
\* Largest number of assessor records the archive starts with.
MaxAssessors == 2
\* Largest number of ReadTimeouts raised during one delete_assessor call.
MaxTimeouts == 2
\* Largest number of session directories under the source path.
MaxSessions == 2
\* Largest value a segmentation voxel holds (0 is background).
MaxLabel == 3

(***************************************************************************)
(* String helpers (Python str operations on character sequences).          *)
(***************************************************************************)
\* s[i:i+len(sub)] == sub, with 1-based i.
MatchAt(s, sub, i) ==
    /\ i + Len(sub) - 1 <= Len(s)
    /\ \A k \in 1..Len(sub) : s[i + k - 1] = sub[k]

\* Python: sub in s
Contains(s, sub) == \E i \in 1..(Len(s) + 1) : MatchAt(s, sub, i)

RECURSIVE SplitAcc(_, _, _, _, _)
SplitAcc(s, sep, i, cur, acc) ==
    IF i > Len(s) THEN Append(acc, cur)
    ELSE IF MatchAt(s, sep, i)
         THEN SplitAcc(s, sep, i + Len(sep), <<>>, Append(acc, cur))
         ELSE SplitAcc(s, sep, i + 1, Append(cur, s[i]), acc)

\* Python: s.split(sep), for a non-empty separator.
Split(s, sep) == SplitAcc(s, sep, 1, <<>>, <<>>)

RECURSIVE Join(_, _)
\* Python: sep.join(parts)
Join(parts, sep) ==
    IF parts = <<>> THEN <<>>
    ELSE IF Len(parts) = 1 THEN parts[1]
    ELSE parts[1] \o sep \o Join(Tail(parts), sep)

Range(s) == {s[i] : i \in 1..Len(s)}

(***************************************************************************)
(* Pipeline A: the archive and its assessor records.                       *)
(***************************************************************************)
PROJECTS == <<"CIBS_COPE", "CIBS_BRAIN2">>

LabelSep == <<"-", "x", "-">>

SubjectLabels == {<<"a">>, <<"b">>}
SessionLabels == {<<"s">>, <<"t">>}

\* The label an assessor is created with: project-x-subject-x-session-x-proc.
MakeLabel(subj, sess) == Join(<<<<"P">>, subj, sess, <<"n">>>>, LabelSep)

\* Records the archive may hold.  Every assessor was made for session s of
\* subject a or b; its subject_label and session_label fields may disagree
\* with the label (an orphaned assessor).
AssessorUniverse ==
    { [project_id |-> p, subject_label |-> su, session_label |-> se,
       label |-> MakeLabel(tok, <<"s">>)] :
        p \in Range(PROJECTS), su \in SubjectLabels, se \in SessionLabels,
        tok \in SubjectLabels }

\* The archive's listings: sequences of distinct records.
RECURSIVE ListsUpTo(_, _)
ListsUpTo(S, n) ==
    IF n = 0 THEN {<<>>}
    ELSE LET shorter == ListsUpTo(S, n - 1)
         IN shorter \cup
            { Append(l, x) : l \in {m \in shorter : Len(m) = n - 1},
                             x \in S }

\* The archive keeps an assessor label unique within its project.
Distinct(l) ==
    \A i, j \in 1..Len(l) :
        i # j => (l[i].project_id # l[j].project_id \/ l[i].label # l[j].label)

Archives == { l \in ListsUpTo(AssessorUniverse, MaxAssessors) : Distinct(l) }

\* xnat.list_project_assessors(proj)
list_project_assessors(arch, proj) ==
    LET InProj(a) == a.project_id = proj IN SelectSeq(arch, InProj)

\* xnat.select_assessor(proj, subj, sess, assr).exists()
Exists(arch, proj, subj, sess, assr) ==
    \E i \in 1..Len(arch) :
        /\ arch[i].project_id = proj
        /\ arch[i].subject_label = subj
        /\ arch[i].session_label = sess
        /\ arch[i].label = assr

\* selected.delete(True), as the archive applies it.
Remove(arch, proj, subj, sess, assr) ==
    LET Other(a) == ~ ( /\ a.project_id = proj
                        /\ a.subject_label = subj
                        /\ a.session_label = sess
                        /\ a.label = assr )
    IN SelectSeq(arch, Other)

\* How a ReadTimeout may be raised inside the try block: "lost", on a request
\* the archive did not act on (the existence request, or a delete request that
\* never arrived); "applied", on a delete request the archive carried out
\* before its answer timed out.
TimeoutKinds == {"lost", "applied"}

TimeoutSeqs == UNION { [1..n -> TimeoutKinds] : n \in 0..MaxTimeouts }

RECURSIVE delete_assessor_unchecked(_, _, _, _, _, _)
\* delete_assessor without the exists() test: it deletes and returns true
\* whether or not the assessor is there.
delete_assessor_unchecked(arch, proj, subj, sess, assr, faults) ==
    LET retry(a) ==
            delete_assessor_unchecked(a, proj, subj, sess, assr, Tail(faults))
        caught(a) == [ret |-> "None",
                      archive |-> retry(a).archive,
                      timeouts |-> 1 + retry(a).timeouts]
    IN IF faults # <<>> /\ Head(faults) = "lost"
       THEN caught(arch)
       ELSE IF faults # <<>> /\ Head(faults) = "applied"
       THEN caught(Remove(arch, proj, subj, sess, assr))
       ELSE [ret |-> "True",
             archive |-> Remove(arch, proj, subj, sess, assr),
             timeouts |-> 0]

RECURSIVE delete_assessor(_, _, _, _, _, _)
\* One call of delete_assessor: the value it returns ("True", "False", or
\* "None" when the function falls off its end), the archive afterwards and the
\* number of ReadTimeouts caught.  faults lists the timeouts still to come.
delete_assessor(arch, proj, subj, sess, assr, faults) ==
    LET retry(a) == delete_assessor(a, proj, subj, sess, assr, Tail(faults))
        caught(a) == [ret |-> "None",
                      archive |-> retry(a).archive,
                      timeouts |-> 1 + retry(a).timeouts]
    IN IF faults # <<>> /\ Head(faults) = "lost"
       THEN caught(arch)
       ELSE IF Exists(arch, proj, subj, sess, assr)
            THEN IF faults # <<>> /\ Head(faults) = "applied"
                 THEN caught(Remove(arch, proj, subj, sess, assr))
                 ELSE [ret |-> "True",
                       archive |-> Remove(arch, proj, subj, sess, assr),
                       timeouts |-> 0]
            ELSE [ret |-> "False", archive |-> arch, timeouts |-> 0]

\* if delete_assessor(...): Python truth of the returned value.
Truthy(ret) == ret = "True"

(***************************************************************************)
(* Pipeline B: state.                                                      *)
(***************************************************************************)
VARIABLES
    directory_list, \* the session directories, sorted
    tree,           \* tree[k]: the listing of directory_list[k]
    segvol,         \* segvol[k]: the array of the segmentation of session k
    csv,            \* the rows of the label table file
    pcB,            \* position of the run
    crash,          \* the exception that ended the run, "" when none
    result_dict,    \* label index -> label name
    dirIndex,       \* number of directories process_all has finished
    mri_path,       \* locals of process_all
    seg_path,
    call,           \* the latest save_t1_slices_and_labels call
    view,           \* its loop variables (view past the last: it returned)
    slice,
    wrote,          \* the files it has written
    files,          \* the output directory: file -> content
    saves,          \* every save_t1_slices_and_labels call, in order
    warnings,       \* the directories process_all warned about, in order
    pcH,            \* position of the dataset packaging
    caller,         \* who called create_hf_dataset, "" before the call
    image_files,    \* its arguments
    output_dir,
    jsonl,          \* the records written to the manifest, in order
    fileIndex,      \* number of loop iterations create_hf_dataset finished
    copied,         \* the names shutil.copy has put into output_dir
    hfError         \* the exception that ended the packaging, "" when none

varsH ==
    <<pcH, caller, image_files, output_dir, jsonl, fileIndex, copied, hfError>>

varsB ==
    <<directory_list, tree, segvol, csv, pcB, crash, result_dict, dirIndex,
      mri_path, seg_path, call, view, slice, wrote, files, saves, warnings,
      varsH>>

(***************************************************************************)
(* Pipeline A: state.                                                      *)
(***************************************************************************)
VARIABLES
    entry,      \* what was invoked: the script, or delete_all_assessors
    args,       \* parsed arguments: projects and subjects (<<>> when absent)
    archive,    \* the archive's assessor records, in listing order
    pcA,        \* position of the run
    todo,       \* projects the loop of delete_orphaned_assessors has left
    cands,      \* assessors_to_delete of the running delete_assessors call
    count,      \* its loop counter
    out,        \* the outcome lines it printed, one record per line
    listing,    \* the project listing the running call's list was built from
    calls,      \* the delete_assessor calls of the running call, in order
    batches     \* every delete_assessors call that returned, in order

varsA ==
    <<entry, args, archive, pcA, todo, listing, cands, count, out, calls,
      batches>>

\* --projects / --subjects as argparse leaves them (nargs='+': a non-empty
\* list, or None, written <<>>).
ProjectArgs == {<<>>, <<"CIBS_COPE">>}
SubjectArgs == {<<>>, <<<<"a">>>>}

\* if args.projects: PROJECTS = args.projects
EffectiveProjects(a) == IF a.projects # <<>> THEN a.projects ELSE PROJECTS

vars == <<varsA, varsB>>

InitA ==
    /\ archive \in Archives
    /\ \/ /\ entry = "script"
          /\ args \in [projects : ProjectArgs, subjects : SubjectArgs]
       \/ /\ entry = "delete_all_assessors"
          /\ args \in [projects : {<<p>> : p \in Range(PROJECTS)},
                       subjects : {<<su>> : su \in SubjectLabels}]
    /\ pcA = entry
    /\ todo = <<>>
    /\ listing = <<>>
    /\ cands = <<>>
    /\ count = 0
    /\ out = <<>>
    /\ calls = <<>>
    /\ batches = <<>>

\* Where control goes when a delete_assessors call returns: back into the
\* project loop of delete_orphaned_assessors, or to the end of the run.
AfterBatch(rest) == IF rest = <<>> THEN "done" ELSE "orphan"

\* a['label'].split('-x-')[n], n counted from 0 as in the code.
LabelToken(a, n) == Split(a.label, LabelSep)[n + 1]

\* The candidate list as a set union would build it: an assessor failing
\* both checks is listed once.
OrphanCandidatesUnion(assessors) ==
    LET SubjOff(a) == a.subject_label # LabelToken(a, 1)
        SessOnly(a) == /\ a.session_label # LabelToken(a, 2)
                       /\ ~ SubjOff(a)
    IN SelectSeq(assessors, SubjOff) \o SelectSeq(assessors, SessOnly)

\* subj_delete + sess_delete of delete_orphaned_assessors.
OrphanCandidates(assessors) ==
    LET SubjOff(a) == a.subject_label # LabelToken(a, 1)
        SessOff(a) == a.session_label # LabelToken(a, 2)
    IN SelectSeq(assessors, SubjOff) \o SelectSeq(assessors, SessOff)

\* Both subscripts of the split label exist for every listed assessor.
Splittable(assessors) ==
    \A i \in 1..Len(assessors) : Len(Split(assessors[i].label, LabelSep)) >= 3

\* delete_assessors(xnat, list) up to its first loop iteration: an empty list
\* prints "No assessors to delete." and returns.
StartBatch(assessors, list, rest) ==
    /\ listing' = assessors
    /\ cands' = list
    /\ count' = 0
    /\ out' = <<>>
    /\ calls' = <<>>
    /\ todo' = rest
    /\ IF list = <<>>
       THEN /\ batches' = Append(batches, [listing |-> assessors,
                                           items |-> <<>>, lines |-> <<>>,
                                           calls |-> <<>>])
            /\ pcA' = AfterBatch(rest)
       ELSE /\ batches' = batches
            /\ pcA' = "batch"

\* __main__: the branch on SUBJECTS.
Main ==
    /\ pcA = "script"
    /\ IF args.subjects # <<>>
       THEN /\ pcA' = "done"
            /\ todo' = todo
       ELSE /\ todo' = EffectiveProjects(args)
            /\ pcA' = AfterBatch(EffectiveProjects(args))
    /\ UNCHANGED <<entry, args, archive, listing, cands, count, out, calls,
                   batches>>
    /\ UNCHANGED varsB

\* One iteration of "for proj in projects" in delete_orphaned_assessors.
DeleteOrphanedAssessors ==
    /\ pcA = "orphan"
    /\ todo # <<>>
    /\ LET assessors == list_project_assessors(archive, Head(todo))
       IN IF Splittable(assessors)
          THEN StartBatch(assessors, OrphanCandidates(assessors), Tail(todo))
          ELSE /\ pcA' = "crashed"
               /\ UNCHANGED <<todo, listing, cands, count, out, calls,
                              batches>>
    /\ UNCHANGED <<entry, args, archive>>
    /\ UNCHANGED varsB

\* delete_all_assessors(xnat, proj, subject)
DeleteAllAssessors ==
    /\ pcA = "delete_all_assessors"
    /\ LET assessors == list_project_assessors(archive, args.projects[1])
           OfSubject(a) == a.subject_label = args.subjects[1]
       IN StartBatch(assessors, SelectSeq(assessors, OfSubject), <<>>)
    /\ UNCHANGED <<entry, args, archive>>
    /\ UNCHANGED varsB

\* The outcome line of one loop iteration of delete_assessors.
OutcomeLine(s, ret) ==
    [label |-> s.label,
     text |-> IF Truthy(ret) THEN "Deleted" ELSE "Failed to delete"]

\* A loop that stops at the first item that was not deleted.
LoopStopsOnFailure(ret) == Truthy(ret)

\* Whether the loop of delete_assessors goes on after an item's outcome.
LoopContinues(ret) == TRUE

\* One iteration of "for s in assessors_to_delete" in delete_assessors,
\* the delete_assessor call and its retries included.
DeleteStep ==
    /\ pcA = "batch"
    /\ count < Len(cands)
    /\ \E faults \in TimeoutSeqs :
        LET s == cands[count + 1]
            r == delete_assessor(archive, s.project_id, s.subject_label,
                                 s.session_label, s.label, faults)
            lines == Append(out, OutcomeLine(s, r.ret))
            made == Append(calls, [item |-> s, before |-> archive,
                                   after |-> r.archive, ret |-> r.ret,
                                   retried |-> r.timeouts > 0])
            last == count + 1 = Len(cands) \/ ~ LoopContinues(r.ret)
        IN /\ archive' = r.archive
           /\ count' = count + 1
           /\ out' = lines
           /\ calls' = made
           /\ IF last
              THEN /\ batches' = Append(batches, [listing |-> listing,
                                                  items |-> cands,
                                                  lines |-> lines,
                                                  calls |-> made])
                   /\ pcA' = AfterBatch(todo)
              ELSE /\ batches' = batches
                   /\ pcA' = "batch"
    /\ UNCHANGED <<entry, args, todo, listing, cands>>
    /\ UNCHANGED varsB


(***************************************************************************)
(* Pipeline B: files, volumes and the label table.                         *)
(***************************************************************************)
PathSep == <<"/">>
NiiExt == <<".", "n", "i", "i", ".", "g", "z">>
NiftiDir == <<"N", "I", "F", "T", "I">>
SegMarker == <<"s", "e", "g">>

MriFile == <<"t", "1">> \o NiiExt
SegFile == <<"t", "1", "_", "s", "e", "g">> \o NiiExt
ExtraFile == <<"t", "2">> \o NiiExt
JsonFile == <<"t", "1", ".", "j", "s", "o", "n">>

\* What the NIFTI directory of a scan may hold.
FileSets ==
    { <<JsonFile>>,
      <<JsonFile, MriFile>>,
      <<MriFile, SegFile>>,
      <<ExtraFile, MriFile, SegFile>> }

ScanDirName(n) == <<n, "-", "T">>

\* What a session directory may hold: no, one or two scan directories.
SessionLayouts ==
    {<<>>}
    \cup { <<[name |-> ScanDirName(n), files |-> fs]>> :
                n \in {"1", "2"}, fs \in FileSets }
    \cup { <<[name |-> ScanDirName("1"), files |-> f1],
             [name |-> ScanDirName("2"), files |-> f2]>> :
                f1 \in FileSets, f2 \in FileSets }

\* A session directory holding one scan with its MRI and segmentation files.
PairLayout == <<[name |-> ScanDirName("1"), files |-> <<MriFile, SegFile>>]>>

DigitChars == <<"0", "1", "2", "3", "4", "5", "6", "7", "8", "9">>

\* The k-th session directory, <subject>/<session>: two sessions a subject.
SessionDir(k) ==
    Join(<<<<"S", DigitChars[((k + 1) \div 2) + 1]>>,
           <<"e", DigitChars[k + 1]>>>>, PathSep)

\* The volumes are arrays of this shape (sagittal, coronal, axial length).
Shape == <<2, 1, 1>>

Voxels == (1..Shape[1]) \X (1..Shape[2]) \X (1..Shape[3])

Volumes == [Voxels -> 0..MaxLabel]

\* A segmentation with label 1 in its first sagittal plane and nothing in
\* its second.
DefaultVolume == [v \in Voxels |-> IF v[1] = 1 THEN 1 ELSE 0]

RECURSIVE DigitsOf(_)
\* The decimal numeral of a natural number.
DigitsOf(n) ==
    IF n < 10 THEN <<DigitChars[n + 1]>>
    ELSE DigitsOf(n \div 10) \o <<DigitChars[(n % 10) + 1]>>

HeaderRow == <<"label_name", <<"i", "d">>>>

\* Two label names of the table, as character sequences.
HippocampusName == <<"L", "e", "f", "t", "-", "H", "i", "p", "p">>
RenamedName == <<"r", "e", "n", "a", "m", "e", "d">>
PaddedName == <<"p", "a", "d", " ">>

RECURSIVE LabelRows(_, _)
\* The rows (name, index) of the label table for the labels lo..hi.
LabelRows(lo, hi) ==
    IF lo > hi THEN <<>>
    ELSE <<<< <<"L">> \o DigitsOf(lo), DigitsOf(lo) >>>>
            \o LabelRows(lo + 1, hi)

\* Label tables the run may read: one naming every label; one that lacks the
\* largest label; one whose last row gives label 1 a second name; one whose
\* last row gives label 2 a name that ends with a blank.
CsvFiles ==
    { <<HeaderRow>> \o LabelRows(1, MaxLabel)
            \o << <<HippocampusName, <<"1", "7">>>> >>,
      <<HeaderRow>> \o LabelRows(1, MaxLabel - 1),
      <<HeaderRow>> \o LabelRows(1, MaxLabel)
            \o << <<RenamedName, <<"1">>>> >>,
      <<HeaderRow>> \o LabelRows(1, MaxLabel)
            \o << <<PaddedName, <<"2">>>> >> }

DefaultCsv == <<HeaderRow>> \o LabelRows(1, MaxLabel)

(***************************************************************************)
(* Pipeline B: the functions of the script.                                *)
(***************************************************************************)
DigitValue(c) == CHOOSE d \in 0..9 : DigitChars[d + 1] = c

IsDigit(c) == \E d \in 0..9 : DigitChars[d + 1] = c

RECURSIVE ParseInt(_)
\* int(text) for a decimal numeral.
ParseInt(ds) ==
    IF Len(ds) = 1 THEN DigitValue(ds[1])
    ELSE 10 * ParseInt(SubSeq(ds, 1, Len(ds) - 1)) + DigitValue(ds[Len(ds)])

RECURSIVE DictFromRows(_, _)
DictFromRows(rows, dict) ==
    IF rows = <<>> THEN dict
    ELSE LET key == ParseInt(Head(rows)[2])
             value == Head(rows)[1]
         IN DictFromRows(Tail(rows),
                         [k \in DOMAIN dict \cup {key} |->
                            IF k = key THEN value ELSE dict[k]])

RECURSIVE DictKeepingFirst(_, _)
DictKeepingFirst(rows, dict) ==
    IF rows = <<>> THEN dict
    ELSE LET key == ParseInt(Head(rows)[2])
             value == Head(rows)[1]
         IN DictKeepingFirst(Tail(rows),
                             [k \in DOMAIN dict \cup {key} |->
                                IF k \in DOMAIN dict THEN dict[k] ELSE value])

\* A table reader that keeps the first name given to an index.
create_dict_first_wins(rows) == DictKeepingFirst(Tail(rows), <<>>)

\* create_dict_from_csv: the header row is skipped, then result_dict[key] =
\* value row by row.
create_dict_from_csv(rows) == DictFromRows(Tail(rows), <<>>)

EndsWith(s, suffix) ==
    /\ Len(suffix) <= Len(s)
    /\ MatchAt(s, suffix, Len(s) - Len(suffix) + 1)

\* os.path.split(p): head and tail around the last separator.
PathTail(p) == LET parts == Split(p, PathSep) IN parts[Len(parts)]
PathHead(p) ==
    LET parts == Split(p, PathSep)
    IN Join(SubSeq(parts, 1, Len(parts) - 1), PathSep)

\* scan_ids of process_all, from the listing of a session directory.
ScanIds(entries) ==
    LET Numbered(e) == IsDigit(e.name[1])
        scan_paths == SelectSeq(entries, Numbered)
    IN [k \in 1..Len(scan_paths) |-> Split(scan_paths[k].name, <<"-">>)[1]]

RECURSIVE GlobFiles(_, _, _)
\* glob.glob(os.path.join(d, f"*{scan_id}*/NIFTI/*.nii.gz"))
GlobFiles(d, entries, scan_id) ==
    IF entries = <<>> THEN <<>>
    ELSE LET e == Head(entries)
             Volume(f) == EndsWith(f, NiiExt)
             hits == SelectSeq(e.files, Volume)
             paths == [k \in 1..Len(hits) |->
                         Join(<<d, e.name, NiftiDir, hits[k]>>, PathSep)]
         IN (IF Contains(e.name, scan_id) THEN paths ELSE <<>>)
            \o GlobFiles(d, Tail(entries), scan_id)

\* A local variable that was never assigned.
Unbound == <<>>

RECURSIVE Classify(_, _)
\* for f in matching_files: seg_path / mri_path assignment.
Classify(fs, paths) ==
    IF fs = <<>> THEN paths
    ELSE Classify(Tail(fs),
                  IF Contains(Head(fs), SegMarker)
                  THEN [paths EXCEPT !.seg = Head(fs)]
                  ELSE [paths EXCEPT !.mri = Head(fs)])

Views ==
    << <<"s", "a", "g", "i", "t", "t", "a", "l">>,
       <<"c", "o", "r", "o", "n", "a", "l">>,
       <<"a", "x", "i", "a", "l">> >>

\* seg_data[i, :, :], seg_data[:, i, :] or seg_data[:, :, i] as a set of
\* voxel positions.
PlaneVoxels(axis, i) == {v \in Voxels : v[axis] = i}

RECURSIVE SortedSeq(_)
\* The members of a finite set of integers in ascending order.
SortedSeq(S) ==
    IF S = {} THEN <<>>
    ELSE LET m == CHOOSE x \in S : \A y \in S : x <= y
         IN <<m>> \o SortedSeq(S \ {m})

\* np.unique(plane)
Unique(vol, axis, i) == SortedSeq({vol[v] : v \in PlaneVoxels(axis, i)})

\* labels = [int(x) for x in slice_labels[slice_labels > 0]]
NonzeroLabels(slice_labels) ==
    LET Positive(x) == x > 0 IN SelectSeq(slice_labels, Positive)

\* A test that also skips the slices holding a single label.
DiscardedBelowTwo(labels) == Len(labels) <= 1

\* Whether the slice is skipped: if len(labels) == 0: continue
Discarded(labels) == Len(labels) = 0

PngExt == <<".", "p", "n", "g">>
TxtExt == <<".", "t", "x", "t">>
SegmentTag == <<"S", "E", "G", "M", "E", "N", "T">>
NamePrefix == <<"c", "b", "2", "_">>
Underscore == <<"_">>

\* f"{i:03d}"
Pad3(i) ==
    LET d == DigitsOf(i)
    IN IF Len(d) >= 3 THEN d
       ELSE [k \in 1..(3 - Len(d)) |-> "0"] \o d

\* subject_name = "cb2_" + subj + "_" + scan, then _{view}_{i:03d}
SliceStem(subj, scan, axis, i) ==
    NamePrefix \o subj \o Underscore \o scan \o Underscore \o Views[axis]
        \o Underscore \o Pad3(i)

RECURSIVE Replace(_, _, _)
\* str.replace(old, new): every occurrence, left to right.
Replace(s, old, new) ==
    IF Len(s) < Len(old) THEN s
    ELSE IF MatchAt(s, old, 1)
         THEN new \o Replace(SubSeq(s, Len(old) + 1, Len(s)), old, new)
         ELSE <<Head(s)>> \o Replace(Tail(s), old, new)

\* The files a slice is written to, named within the output directory.
ImageFile(subj, scan, axis, i) == SliceStem(subj, scan, axis, i) \o PngExt
SegmentFile(subj, scan, axis, i) ==
    SliceStem(subj, scan, axis, i) \o Underscore \o SegmentTag \o PngExt
\* filename.replace(".png", ".txt")
LabelFile(img) == Replace(img, PngExt, TxtExt)

NoCall == [subject |-> <<>>, scan |-> <<>>, seg_data |-> DefaultVolume]

\* Runs over every layout of the session directories.
InputLayouts(n) ==
    /\ tree \in [1..n -> SessionLayouts]
    /\ segvol = [k \in 1..n |-> DefaultVolume]
    /\ csv = DefaultCsv

\* Runs over every segmentation of the first session and every label table.
InputVolumes(n) ==
    /\ tree = [k \in 1..n |-> PairLayout]
    /\ \E vol \in Volumes :
            segvol = [k \in 1..n |-> IF k = 1 THEN vol ELSE DefaultVolume]
    /\ csv \in CsvFiles

NotPackaging ==
    /\ pcH = "idle"
    /\ caller = ""
    /\ image_files = <<>>
    /\ output_dir = <<>>
    /\ jsonl = <<>>
    /\ fileIndex = 0
    /\ copied = {}
    /\ hfError = ""

StartB ==
    /\ pcB = "main"
    /\ crash = ""
    /\ result_dict = <<>>
    /\ dirIndex = 0
    /\ mri_path = Unbound
    /\ seg_path = Unbound
    /\ call = NoCall
    /\ view = 1
    /\ slice = 1
    /\ wrote = {}
    /\ files = <<>>
    /\ saves = <<>>
    /\ warnings = <<>>
    /\ NotPackaging

InitB ==
    /\ \E n \in 1..MaxSessions :
        /\ directory_list = [k \in 1..n |-> SessionDir(k)]
        /\ InputLayouts(n) \/ InputVolumes(n)
    /\ StartB

\* Where process_all is once n directories are finished.
AfterDirectory(n) == IF n = Len(directory_list) THEN "done" ELSE "dirs"

\* The session a path lies in.
SessionOf(path) ==
    CHOOSE k \in 1..Len(directory_list) :
        MatchAt(path, directory_list[k] \o PathSep, 1)

\* main(), up to the call of process_all: the label table is read.
ReadCatalog ==
    /\ pcB = "main"
    /\ result_dict' = create_dict_from_csv(csv)
    /\ pcB' = "dirs"
    /\ UNCHANGED <<directory_list, tree, segvol, csv, crash, dirIndex,
                   mri_path, seg_path, call, view, slice, wrote, files, saves,
                   warnings>>
    /\ UNCHANGED varsH
    /\ UNCHANGED varsA

\* One iteration of "for i, d in enumerate(directory_list)" in process_all,
\* up to the first slice of the save_t1_slices_and_labels call it makes.
\* The test on matching_files and what follows it stand after the loop over
\* scan_ids, so they see the matches of the last scan id.
ProcessDirectory ==
    /\ pcB = "dirs"
    /\ dirIndex < Len(directory_list)
    /\ LET d == directory_list[dirIndex + 1]
           subj_id == PathTail(PathHead(d))
           scan_ids == ScanIds(tree[dirIndex + 1])
           scan_id == scan_ids[Len(scan_ids)]
           matching_files == GlobFiles(d, tree[dirIndex + 1], scan_id)
           paths == Classify(matching_files,
                             [mri |-> mri_path, seg |-> seg_path])
           skip == /\ dirIndex' = dirIndex + 1
                   /\ pcB' = AfterDirectory(dirIndex + 1)
                   /\ UNCHANGED <<crash, mri_path, seg_path, call, saves,
                                  view, slice, wrote>>
       IN IF scan_ids = <<>>
          THEN skip /\ warnings' = warnings
          ELSE IF Len(matching_files) = 0 \/ Len(matching_files) > 2
          THEN skip /\ warnings' = Append(warnings, d)
          ELSE /\ warnings' = warnings
               /\ mri_path' = paths.mri
               /\ seg_path' = paths.seg
               /\ IF paths.mri = Unbound \/ paths.seg = Unbound
                  THEN /\ pcB' = "crashed"
                       /\ crash' = "UnboundLocalError"
                       /\ UNCHANGED <<dirIndex, call, saves, view, slice,
                                      wrote>>
                  ELSE /\ pcB' = "save"
                       /\ view' = 1
                       /\ slice' = 1
                       /\ wrote' = {}
                       /\ crash' = crash
                       /\ dirIndex' = dirIndex
                       /\ call' = [subject |-> subj_id, scan |-> scan_id,
                                   seg_data |-> segvol[SessionOf(paths.seg)]]
                       /\ saves' = Append(saves,
                                          [dir |-> d, scan |-> scan_id,
                                           mri |-> paths.mri,
                                           seg |-> paths.seg,
                                           matching |-> matching_files])
    /\ UNCHANGED <<directory_list, tree, segvol, csv, result_dict, files>>
    /\ UNCHANGED varsH
    /\ UNCHANGED varsA

\* One iteration of "for i in range(mri_data.shape[view])" in
\* save_t1_slices_and_labels, called with save_labels=True.
SaveSlice ==
    /\ pcB = "save"
    /\ LET labels == NonzeroLabels(Unique(call.seg_data, view, slice))
           filename == ImageFile(call.subject, call.scan, view, slice - 1)
           filename2 == SegmentFile(call.subject, call.scan, view, slice - 1)
           images == {filename, filename2}
           known == \A k \in 1..Len(labels) :
                        labels[k] \in DOMAIN result_dict
           string_labels == [k \in 1..Len(labels) |-> result_dict[labels[k]]]
           Put(names, content) ==
                [f \in DOMAIN files \cup names |->
                    IF f \in names THEN content ELSE files[f]]
           lastSlice == slice = Shape[view]
           lastView == view = Len(Views)
           advance ==
                /\ slice' = IF lastSlice THEN 1 ELSE slice + 1
                /\ view' = IF lastSlice THEN view + 1 ELSE view
                /\ IF lastSlice /\ lastView
                   THEN /\ dirIndex' = dirIndex + 1
                        /\ pcB' = AfterDirectory(dirIndex + 1)
                   ELSE /\ dirIndex' = dirIndex
                        /\ pcB' = "save"
                /\ crash' = crash
       IN IF Discarded(labels)
          THEN advance /\ UNCHANGED <<files, wrote>>
          ELSE IF ~ known
          THEN /\ files' = Put(images, "image")
               /\ wrote' = wrote \cup images
               /\ pcB' = "crashed"
               /\ crash' = "KeyError"
               /\ UNCHANGED <<dirIndex, view, slice>>
          ELSE /\ files' = [f \in DOMAIN files \cup images
                                    \cup {LabelFile(filename)} |->
                              IF f \in images THEN "image"
                              ELSE IF f = LabelFile(filename)
                                   THEN string_labels
                                   ELSE files[f]]
               /\ wrote' = wrote \cup images \cup {LabelFile(filename)}
               /\ advance
    /\ UNCHANGED <<directory_list, tree, segvol, csv, result_dict, mri_path,
                   seg_path, call, saves, warnings>>
    /\ UNCHANGED varsH
    /\ UNCHANGED varsA

(***************************************************************************)
(* Pipeline B: the dataset packaging.                                      *)
(***************************************************************************)
SOURCE_PATH ==
    <<"C", "I", "B", "S", "_", "B", "R", "A", "I", "N", "2", "/",
      "R", "e", "s", "o", "u", "r", "c", "e", "s">>
OUTPUT_DIR == <<"s", "l", "i", "c", "e", "_", "d", "a", "t", "a">>
HfName == <<"h", "f">>

\* os.path.join(a, b) for a relative b and an a without trailing separator.
PathJoin(a, b) == a \o PathSep \o b

\* result_dir = os.path.join(SOURCE_PATH, OUTPUT_DIR)
ResultDir == PathJoin(SOURCE_PATH, OUTPUT_DIR)
HfDir == PathJoin(ResultDir, HfName)

\* The position of the last occurrence of a character, 0 when there is none.
RFind(s, c) ==
    LET I == {i \in 1..Len(s) : s[i] = c}
    IN IF I = {} THEN 0 ELSE CHOOSE i \in I : \A j \in I : j <= i

\* os.path.splitext(p)[0]: the extension starts at the last dot of the last
\* component, leading dots of the component apart.
SplitextRoot(p) ==
    LET sepIndex == RFind(p, "/")
        dotIndex == RFind(p, ".")
    IN IF /\ dotIndex > sepIndex
          /\ \E k \in (sepIndex + 1)..(dotIndex - 1) : p[k] # "."
       THEN SubSeq(p, 1, dotIndex - 1)
       ELSE p

\* txt_file = os.path.splitext(image_file)[0] + ".txt"
TxtFile(image_file) == SplitextRoot(image_file) \o TxtExt

Whitespace == {" ", "\n", "\t", "\r"}

RECURSIVE LStrip(_)
LStrip(s) ==
    IF s # <<>> /\ Head(s) \in Whitespace THEN LStrip(Tail(s)) ELSE s

RECURSIVE RStrip(_)
RStrip(s) ==
    IF s # <<>> /\ s[Len(s)] \in Whitespace
    THEN RStrip(SubSeq(s, 1, Len(s) - 1))
    ELSE s

\* A reader that keeps each line as readlines() returns it.
KeepLine(s) == s

\* label.strip()
Strip(s) == RStrip(LStrip(s))

\* Whether open(path) finds a file: the files of the run are those of the
\* result directory.
FileExists(path) ==
    /\ PathHead(path) = ResultDir
    /\ PathTail(path) \in DOMAIN files

\* txt_input.readlines() of a sidecar: each label was written followed by
\* a newline.
ReadLines(path) ==
    LET content == files[PathTail(path)]
    IN [k \in 1..Len(content) |-> content[k] \o <<"\n">>]

\* labels = [label.strip() for label in txt_input.readlines()]
ReadLabels(path) ==
    LET lines == ReadLines(path)
    IN [k \in 1..Len(lines) |-> Strip(lines[k])]

RECURSIVE SetToSeq(_)
SetToSeq(S) ==
    IF S = {} THEN <<>>
    ELSE LET x == CHOOSE y \in S : TRUE IN <<x>> \o SetToSeq(S \ {x})

Reverse(s) == [k \in 1..Len(s) |-> s[Len(s) + 1 - k]]

\* glob.glob(os.path.join(input_dir, "*.png")): the matching paths, in an
\* order the file system decides.
GlobPng(input_dir) ==
    LET names == {f \in DOMAIN files : EndsWith(f, PngExt)}
        paths == SetToSeq({PathJoin(input_dir, f) : f \in names})
    IN {paths, Reverse(paths)}

HfViews == {<<"a", "l", "l">>} \cup Range(Views)

\* get_image_files_for_dataset, applied to the paths glob returned.
get_image_files_for_dataset(paths, view_name) ==
    LET NotSegment(img) == ~ Contains(img, SegmentTag)
        OfView(img) == Contains(img, view_name)
        image_list == SelectSeq(paths, NotSegment)
    IN IF view_name \in Range(Views)
       THEN SelectSeq(image_list, OfView)
       ELSE image_list

\* create_hf_dataset up to its loop: the output directory is made and the
\* manifest is opened for writing.
EnterCreateHfDataset(who, items, dir) ==
    /\ caller' = who
    /\ image_files' = items
    /\ output_dir' = dir
    /\ jsonl' = <<>>
    /\ fileIndex' = 0
    /\ copied' = {}
    /\ hfError' = ""
    /\ pcH' = IF Len(items) = 0 THEN "returned" ELSE "loop"

\* main, after process_all returned:
\* create_hf_dataset(result_dir, os.path.join(result_dir, "hf"), ...).
\* The loop of create_hf_dataset goes over the characters of result_dir.
MainDataset ==
    /\ pcB = "done"
    /\ pcH = "idle"
    /\ EnterCreateHfDataset("main",
                            [k \in 1..Len(ResultDir) |-> <<ResultDir[k]>>],
                            HfDir)
    /\ UNCHANGED <<directory_list, tree, segvol, csv, pcB, crash, result_dict,
                   dirIndex, mri_path, seg_path, call, view, slice, wrote,
                   files, saves, warnings>>
    /\ UNCHANGED varsA

\* create_view_dataset(result_dir, output_dir, view), called on the output
\* of a run that has ended.
CreateViewDataset ==
    /\ pcB \in {"done", "crashed"}
    /\ pcH = "idle"
    /\ \E view_name \in HfViews, dir \in {ResultDir, HfDir},
          paths \in GlobPng(ResultDir) :
            EnterCreateHfDataset("create_view_dataset",
                                 get_image_files_for_dataset(paths, view_name),
                                 dir)
    /\ UNCHANGED <<directory_list, tree, segvol, csv, pcB, crash, result_dict,
                   dirIndex, mri_path, seg_path, call, view, slice, wrote,
                   files, saves, warnings>>
    /\ UNCHANGED varsA

\* One iteration of the loop of create_hf_dataset up to the manifest write:
\* the sidecar is read, then the record is written.
WriteRecord ==
    /\ pcH = "loop"
    /\ LET image_file == image_files[fileIndex + 1]
           filename == PathTail(image_file)
           txt_file == TxtFile(image_file)
       IN IF FileExists(txt_file)
          THEN /\ jsonl' = Append(jsonl, [file_name |-> filename,
                                          text |-> ReadLabels(txt_file)])
               /\ pcH' = "copy"
               /\ hfError' = hfError
          ELSE /\ jsonl' = jsonl
               /\ pcH' = "raised"
               /\ hfError' = "FileNotFoundError"
    /\ UNCHANGED <<directory_list, tree, segvol, csv, pcB, crash, result_dict,
                   dirIndex, mri_path, seg_path, call, view, slice, wrote,
                   files, saves, warnings>>
    /\ UNCHANGED <<caller, image_files, output_dir, fileIndex, copied>>
    /\ UNCHANGED varsA

\* The rest of the iteration: shutil.copy(image_file, output_dir), which
\* refuses to copy a file onto itself.
CopyImage ==
    /\ pcH = "copy"
    /\ LET image_file == image_files[fileIndex + 1]
       IN IF PathHead(image_file) = output_dir
          THEN /\ pcH' = "raised"
               /\ hfError' = "SameFileError"
               /\ UNCHANGED <<copied, fileIndex>>
          ELSE /\ copied' = copied \cup {PathTail(image_file)}
               /\ fileIndex' = fileIndex + 1
               /\ pcH' = IF fileIndex + 1 = Len(image_files)
                         THEN "returned" ELSE "loop"
               /\ hfError' = hfError
    /\ UNCHANGED <<directory_list, tree, segvol, csv, pcB, crash, result_dict,
                   dirIndex, mri_path, seg_path, call, view, slice, wrote,
                   files, saves, warnings>>
    /\ UNCHANGED <<caller, image_files, output_dir, jsonl>>
    /\ UNCHANGED varsA

(***************************************************************************)
(* The two specifications.                                                 *)
(***************************************************************************)
\* Pipeline B at rest while pipeline A runs, and the reverse.
IdleB ==
    /\ directory_list = <<>>
    /\ tree = <<>>
    /\ segvol = <<>>
    /\ csv = <<HeaderRow>>
    /\ pcB = "idle"
    /\ crash = ""
    /\ result_dict = <<>>
    /\ dirIndex = 0
    /\ mri_path = Unbound
    /\ seg_path = Unbound
    /\ call = NoCall
    /\ view = 1
    /\ slice = 1
    /\ wrote = {}
    /\ files = <<>>
    /\ saves = <<>>
    /\ warnings = <<>>
    /\ NotPackaging

IdleA ==
    /\ entry = "none"
    /\ args = [projects |-> <<>>, subjects |-> <<>>]
    /\ archive = <<>>
    /\ pcA = "idle"
    /\ todo = <<>>
    /\ listing = <<>>
    /\ cands = <<>>
    /\ count = 0
    /\ out = <<>>
    /\ calls = <<>>
    /\ batches = <<>>

NextA == Main \/ DeleteOrphanedAssessors \/ DeleteAllAssessors \/ DeleteStep

NextB == ReadCatalog \/ ProcessDirectory \/ SaveSlice

Init == InitA /\ IdleB
Next == NextA
Spec == Init /\ [][Next]_vars

InitMRI == IdleA /\ InitB
NextMRI == NextB
SpecMRI == InitMRI /\ [][NextMRI]_vars

\* The extraction followed by the packaging of what it wrote.
InitDataset ==
    /\ IdleA
    /\ \E n \in 1..MaxSessions :
        /\ directory_list = [k \in 1..n |-> SessionDir(k)]
        /\ InputVolumes(n)
    /\ StartB
NextDataset ==
    \/ ReadCatalog
    \/ ProcessDirectory
    \/ SaveSlice
    \/ MainDataset
    \/ CreateViewDataset
    \/ WriteRecord
    \/ CopyImage
SpecDataset == InitDataset /\ [][NextDataset]_vars

(***************************************************************************)
(* Pipeline A: properties.                                                 *)
(***************************************************************************)
ItemExists(arch, s) ==
    Exists(arch, s.project_id, s.subject_label, s.session_label, s.label)

\* Every delete_assessors call of the run, the running one included.
BatchViews ==
    Range(batches) \cup
    (IF pcA = "batch"
     THEN {[listing |-> listing, items |-> cands, lines |-> out,
            calls |-> calls]}
     ELSE {})

CallSet == UNION { Range(b.calls) : b \in BatchViews }

OrphanMode == entry = "script" /\ args.subjects = <<>>

\* C1: a delete_assessor call returns true exactly when the assessor existed
\* and the call deleted it, also after timeout retries; when the assessor does
\* not exist it returns false and leaves the archive unchanged.
C1_ReturnReportsDeletion ==
    \A c \in CallSet :
        LET existed == ItemExists(c.before, c.item)
            deleted == existed /\ ~ ItemExists(c.after, c.item)
        IN /\ (c.ret = "True") <=> deleted
           /\ ~ existed => (c.ret = "False" /\ c.after = c.before)

\* C2: delete_assessors reports exactly one outcome per item, in input order,
\* goes on after a failed item, and when it returns the successes and the
\* failures add up to the length of its list.
C2_OneOutcomePerItem ==
    /\ \A b \in BatchViews :
        /\ Len(b.lines) <= Len(b.items)
        /\ \A k \in 1..Len(b.lines) :
            /\ b.lines[k].label = b.items[k].label
            /\ b.lines[k].text \in {"Deleted", "Failed to delete"}
    /\ \A i \in 1..Len(batches) :
        LET b == batches[i]
            ok == {k \in 1..Len(b.lines) : b.lines[k].text = "Deleted"}
            ko == {k \in 1..Len(b.lines) :
                        b.lines[k].text = "Failed to delete"}
        IN Cardinality(ok) + Cardinality(ko) = Len(b.items)
    /\ pcA = "batch" => (count < Len(cands) /\ Len(out) = count)

\* A finished batch of two differently labelled items whose first item timed
\* out and was reported failed, and whose second item was still handled.
C2_Witness ==
    \E i \in 1..Len(batches) :
        LET b == batches[i]
        IN /\ Len(b.items) = 2
           /\ b.items[1].label # b.items[2].label
           /\ b.calls[1].retried
           /\ b.lines[1].text = "Failed to delete"
           /\ b.lines[2].text = "Deleted"

\* C3: a script run with --subjects ends with every assessor of the given
\* projects and subjects deleted and deletes nothing else; a run without
\* --subjects runs the orphan search on every project.
C3_SubjectModeDeletes ==
    (entry = "script" /\ pcA = "done") =>
        IF args.subjects # <<>>
        THEN /\ \A i \in 1..Len(archive) :
                    ~ ( /\ archive[i].project_id
                                \in Range(EffectiveProjects(args))
                        /\ archive[i].subject_label \in Range(args.subjects) )
             /\ \A c \in CallSet : c.item.subject_label \in Range(args.subjects)
        ELSE Len(batches) = Len(EffectiveProjects(args))

\* The subject and session an assessor label was built from.
EmbeddedSubject(label) ==
    CHOOSE tok \in SubjectLabels :
        \E se \in SessionLabels : label = MakeLabel(tok, se)

EmbeddedSession(label) ==
    CHOOSE se \in SessionLabels :
        \E tok \in SubjectLabels : label = MakeLabel(tok, se)

SubjectMismatch(a) == a.subject_label # EmbeddedSubject(a.label)
SessionMismatch(a) == a.session_label # EmbeddedSession(a.label)

Position(l, x) == CHOOSE i \in 1..Len(l) : l[i] = x
Occurrences(l, x) == Cardinality({i \in 1..Len(l) : l[i] = x})

\* C4: the candidate list of delete_orphaned_assessors is the subject-mismatch
\* subset followed by the session-mismatch subset, each in listing order: an
\* assessor is listed once per check it fails.
C4_CandidateList ==
    OrphanMode =>
        \A b \in BatchViews :
            LET L == b.listing
                nS == Cardinality({i \in 1..Len(L) : SubjectMismatch(L[i])})
                nE == Cardinality({i \in 1..Len(L) : SessionMismatch(L[i])})
                Ordered(lo, hi) ==
                    \A k, m \in lo..hi :
                        k < m => Position(L, b.items[k]) < Position(L, b.items[m])
            IN /\ Len(b.items) = nS + nE
               /\ \A k \in 1..Len(b.items) : b.items[k] \in Range(L)
               /\ \A k \in 1..nS : SubjectMismatch(b.items[k])
               /\ \A k \in (nS + 1)..(nS + nE) : SessionMismatch(b.items[k])
               /\ Ordered(1, nS)
               /\ Ordered(nS + 1, nS + nE)
               /\ \A i \in 1..Len(L) :
                    Occurrences(b.items, L[i]) =
                        (IF SubjectMismatch(L[i]) THEN 1 ELSE 0)
                        + (IF SessionMismatch(L[i]) THEN 1 ELSE 0)

\* A candidate list holding an assessor that fails both checks (twice) and,
\* between its occurrences, one that fails the subject check alone.
C4_Witness ==
    /\ OrphanMode
    /\ pcA = "batch"
    /\ Len(cands) = 3
    /\ cands[1] = cands[3]
    /\ cands[2] # cands[1]
    /\ SubjectMismatch(cands[2])
    /\ ~ SessionMismatch(cands[2])

\* C5: of two occurrences of one assessor in a candidate list the first
\* deletes it and the second finds it absent, is reported as a failure and
\* leaves the archive as it was; the batch and the later projects go on.
C5_DuplicateTolerated ==
    /\ pcA # "crashed"
    /\ \A b \in BatchViews :
        /\ Len(b.calls) = Len(b.lines)
        /\ \A i, j \in 1..Len(b.calls) :
            (i < j /\ b.items[i] = b.items[j]) =>
                /\ ItemExists(b.calls[i].before, b.items[i])
                /\ ~ ItemExists(b.calls[i].after, b.items[i])
                /\ ~ ItemExists(b.calls[j].before, b.items[j])
                /\ b.calls[j].after = b.calls[j].before
                /\ b.lines[j].text = "Failed to delete"
    /\ \A i \in 1..Len(batches) : Len(batches[i].calls) = Len(batches[i].items)
    /\ pcA = "batch" => count < Len(cands)
    /\ pcA = "orphan" => todo # <<>>
    /\ (OrphanMode /\ pcA = "done") =>
            Len(batches) = Len(EffectiveProjects(args))

\* A finished orphan run over two projects whose first candidate list held
\* one assessor twice and another candidate after its second occurrence.
C5_Witness ==
    /\ OrphanMode
    /\ pcA = "done"
    /\ Len(batches) = 2
    /\ Len(batches[1].items) = 3
    /\ batches[1].items[1] = batches[1].items[2]
    /\ batches[1].lines[3].text = "Deleted"

(***************************************************************************)
(* Pipeline B: properties.                                                 *)
(***************************************************************************)
\* The number of save_t1_slices_and_labels calls made for a scan of a session.
Extractions(d, sid) ==
    Cardinality({n \in 1..Len(saves) :
                    saves[n].dir = d /\ saves[n].scan = sid})

\* Exactly one MRI file and one segmentation file.
OnePair(matches) ==
    /\ Len(matches) = 2
    /\ \E a, b \in 1..2 :
        /\ a # b
        /\ Contains(matches[a], SegMarker)
        /\ ~ Contains(matches[b], SegMarker)

\* C6: a scan id whose glob matches no file or more than two is skipped, and
\* every scan id matching one MRI and one segmentation file is extracted
\* exactly once, whatever the other scans of its session are.
C6_EveryPairedScanExtracted ==
    pcB = "done" =>
        \A k \in 1..Len(directory_list) :
            \A sid \in Range(ScanIds(tree[k])) :
                LET d == directory_list[k]
                    matches == GlobFiles(d, tree[k], sid)
                IN /\ (Len(matches) = 0 \/ Len(matches) > 2)
                        => Extractions(d, sid) = 0
                   /\ OnePair(matches) => Extractions(d, sid) = 1

\* C7: save_t1_slices_and_labels is called only with an MRI path and a
\* segmentation path that are both among the files matched for the scan, and
\* a scan without a segmentation file neither raises on the unassigned
\* seg_path nor is extracted with an earlier session's path.
C7_PathsOfCurrentScan ==
    /\ crash # "UnboundLocalError"
    /\ \A n \in 1..Len(saves) :
        /\ saves[n].mri \in Range(saves[n].matching)
        /\ saves[n].seg \in Range(saves[n].matching)

\* The slices the latest save_t1_slices_and_labels call is through with.
Processed(v, i) == v < view \/ (v = view /\ i < slice)

Slices == {<<v, i>> \in (1..Len(Views)) \X (1..Shape[1]) : i <= Shape[v]}

PlaneIsZero(v, i) == \A vox \in PlaneVoxels(v, i) : call.seg_data[vox] = 0

SliceFiles(v, i) ==
    LET img == ImageFile(call.subject, call.scan, v, i - 1)
    IN {img, SegmentFile(call.subject, call.scan, v, i - 1), LabelFile(img)}

\* No earlier call wrote files for the same subject and scan id.
FreshNames ==
    \A n \in 1..(Len(saves) - 1) :
        ~ ( /\ PathTail(PathHead(saves[n].dir)) = call.subject
            /\ saves[n].scan = call.scan )

PresentLabels(v, i) == {call.seg_data[vox] : vox \in PlaneVoxels(v, i)} \ {0}

\* The k-th smallest member of a set of numbers.
Kth(S, k) == CHOOSE x \in S : Cardinality({y \in S : y < x}) = k - 1

\* The name the label table gives an index: that of the last row whose index
\* column is the numeral of the index.
CatalogName(x) ==
    LET rows == {r \in 2..Len(csv) : csv[r][2] = DigitsOf(x)}
        last == CHOOSE r \in rows : \A q \in rows : q <= r
    IN csv[last][1]

\* C9: the .txt file of a written slice has one line per distinct nonzero
\* value of the slice's segmentation plane: line k is the table's name of the
\* k-th smallest such value.
C9_SidecarLines ==
    \A sl \in Slices :
        LET txt == LabelFile(ImageFile(call.subject, call.scan, sl[1], sl[2] - 1))
            S == PresentLabels(sl[1], sl[2])
        IN /\ (Processed(sl[1], sl[2]) /\ S # {}) => txt \in wrote
           /\ txt \in wrote =>
                /\ Len(files[txt]) = Cardinality(S)
                /\ \A k \in 1..Cardinality(S) :
                        files[txt][k] = CatalogName(Kth(S, k))

\* A written slice whose plane holds two labels, the larger one first, one of
\* them named twice in the label table.
C9_Witness ==
    \E sl \in Slices :
        /\ Processed(sl[1], sl[2])
        /\ Cardinality(PresentLabels(sl[1], sl[2])) = 2
        /\ call.seg_data[<<1, 1, 1>>] > call.seg_data[<<2, 1, 1>>]
        /\ call.seg_data[<<2, 1, 1>>] = 1
        /\ csv[Len(csv)][1] = RenamedName
        /\ LabelFile(ImageFile(call.subject, call.scan, sl[1], sl[2] - 1))
                \in wrote

\* A file of the output directory that is the picture of an MRI slice.
IsSliceImage(f) == EndsWith(f, PngExt) /\ ~ Contains(f, SegmentTag)

\* C10: a slice image is never in the output directory without its .txt
\* file, and a segmentation value missing from the label table does not end
\* the run.
C10_ImageWithSidecar ==
    /\ crash # "KeyError"
    /\ \A f \in DOMAIN files :
            IsSliceImage(f) => LabelFile(f) \in DOMAIN files

(***************************************************************************)
(* Pipeline B: properties of the dataset packaging.                        *)
(***************************************************************************)
\* The slice images the extraction left in the result directory.
ExtractedImages == {f \in DOMAIN files : IsSliceImage(f)}

\* The positions of the manifest that name a file.
RecordsOf(f) == {k \in 1..Len(jsonl) : jsonl[k].file_name = f}

\* C11: once main's packaging of the result directory has ended, the
\* manifest holds exactly one record for every non-segmentation slice image
\* the extraction wrote, and no record for any other file.
C11_ManifestCoversImages ==
    (caller = "main" /\ pcH \in {"returned", "raised"}) =>
        /\ \A f \in ExtractedImages : Cardinality(RecordsOf(f)) = 1
        /\ \A k \in 1..Len(jsonl) : jsonl[k].file_name \in ExtractedImages

\* Whether a name lies in the manifest's output directory.
InOutputDir(f) ==
    \/ f \in copied
    \/ output_dir = ResultDir /\ f \in DOMAIN files

\* Whether the extraction left a sidecar for the image at a path.
HasSidecar(path) ==
    /\ PathHead(path) = ResultDir
    /\ LabelFile(PathTail(path)) \in DOMAIN files

\* The lines of the sidecar the extraction wrote for an image.
SidecarLines(f) == files[LabelFile(f)]

\* Record k names the image of its position, an image with a sidecar that
\* is in the output directory.
RecordPlaced(k) ==
    /\ k <= Len(image_files)
    /\ jsonl[k].file_name = PathTail(image_files[k])
    /\ IsSliceImage(jsonl[k].file_name)
    /\ InOutputDir(jsonl[k].file_name)
    /\ HasSidecar(image_files[k])

\* Every record is placed and its text is the image's sidecar, line by line.
RecordsRoundTrip ==
    \A k \in 1..Len(jsonl) :
        /\ RecordPlaced(k)
        /\ jsonl[k].text = SidecarLines(jsonl[k].file_name)

\* t is line without the blanks around it.
IsStripOf(t, line) ==
    /\ t # <<>> => (t[1] \notin Whitespace /\ t[Len(t)] \notin Whitespace)
    /\ \E i \in 0..Len(line) :
            /\ i + Len(t) <= Len(line)
            /\ SubSeq(line, i + 1, i + Len(t)) = t
            /\ \A j \in 1..Len(line) :
                    (j <= i \/ j > i + Len(t)) => line[j] \in Whitespace

\* Every record is placed and its text is the image's sidecar, line by line,
\* each line without the blanks around it.
RecordsRoundTripStripped ==
    \A k \in 1..Len(jsonl) :
        /\ RecordPlaced(k)
        /\ LET lines == SidecarLines(jsonl[k].file_name)
           IN /\ Len(jsonl[k].text) = Len(lines)
              /\ \A j \in 1..Len(lines) :
                    IsStripOf(jsonl[k].text[j], lines[j])

\* An image without sidecar has no record, is never passed over, and ends
\* the call with an error when the loop reaches it.
MissingSidecarSurfaced ==
    \A k \in 1..Len(image_files) :
        ~ HasSidecar(image_files[k]) =>
            /\ RecordsOf(PathTail(image_files[k])) = {}
            /\ fileIndex < k
            /\ (fileIndex = k - 1 /\ pcH # "loop") =>
                    pcH = "raised" /\ hfError = "FileNotFoundError"

\* C12 as stated: at every point during and after create_hf_dataset /
\* create_view_dataset every record of the manifest names an image that is
\* in the manifest's output directory and carries that image's sidecar lines
\* in order, and a missing sidecar is an error that leaves no record and
\* skips no image.
C12_RecordsRoundTrip == RecordsRoundTrip /\ MissingSidecarSurfaced

\* C12 as amended: whenever create_hf_dataset is between two images or has
\* ended, every record names an image that is in the output directory and
\* carries the image's sidecar lines in order, each without the blanks
\* around it; a missing sidecar is an error that leaves no record and skips
\* no image.
C12_RoundTripBetweenImages ==
    pcH # "copy" => (RecordsRoundTripStripped /\ MissingSidecarSurfaced)

\* create_view_dataset stopped at an image without sidecar after it had
\* written the record of an earlier image and copied that image.
C12_Witness ==
    /\ caller = "create_view_dataset"
    /\ pcH = "raised"
    /\ hfError = "FileNotFoundError"
    /\ jsonl # <<>>
    /\ \A k \in 1..Len(jsonl) : jsonl[k].file_name \in copied

====
